---- MODULE Spec2Model ----
(***************************************************************************)
(* Model of the PM-table field analysers scripts/analyze_temps.py and      *)
(* scripts/analyze_pm_table.py: the float decoder read_f32, the            *)
(* single-offset range scans, the per-core array scans and the live        *)
(* monitor watch_temps.                                                    *)
(*                                                                         *)
(* A buffer is a sequence of bytes (0..255).  A decoded float is the       *)
(* record [s, e, m] of the sign, biased exponent and fraction bits of the  *)
(* IEEE-754 binary32 held by four little-endian bytes; Python's None is    *)
(* the record None.  Comparisons are made on the (sign, magnitude) order   *)
(* of binary32, which is the numeric order; sums, means and spreads are    *)
(* computed exactly in fixed point.                                        *)
(***************************************************************************)
EXTENDS Integers, Sequences, FiniteSets, TLC

VARIABLES data, op, arg, ret, printed, fault,
          mstate, mpc, offsets, snap, line, emitted, acquired, sigint

vars == <<data, op, arg, ret, printed, fault,
          mstate, mpc, offsets, snap, line, emitted, acquired, sigint>>

scanVars == <<data, op, arg, ret, printed, fault>>
monVars == <<mstate, mpc, offsets, snap, line, emitted, acquired, sigint>>

(***************************************************************************)
(* Bounds of the model.                                                    *)
(***************************************************************************)
\* longest buffer, in bytes
MaxLen == 16
\* largest unit (core) count passed to an array scan
MaxCores == 3
\* most ticks the monitor is followed for
MaxTicks == 2

(***************************************************************************)
(* Floats.                                                                 *)
(***************************************************************************)
RECURSIVE Pow2(_)
Pow2(n) == IF n <= 0 THEN 1 ELSE 2 * Pow2(n - 1)

RECURSIVE Log2(_)
\* floor(log2 n) for n >= 1
Log2(n) == IF n < 2 THEN 0 ELSE 1 + Log2(n \div 2)

\* Python's None
None == [s |-> 0, e |-> 0 - 1, m |-> 0]

\* struct.unpack('<f', b)[0]: b[1] is the least significant byte
unpack_f(b) ==
    [s |-> b[4] \div 128,
     e |-> (b[4] % 128) * 2 + (b[3] \div 128),
     m |-> (b[3] % 128) * 65536 + b[2] * 256 + b[1]]

\* the float n * 2^-k of a literal of the source (n >= 1), e.g. 40 or 0.5
Lit(n, k) ==
    [s |-> 0,
     e |-> 127 + Log2(n) - k,
     m |-> (n - Pow2(Log2(n))) * Pow2(23 - Log2(n))]

IsNaN(v) == v.e = 255 /\ v.m # 0
IsInf(v) == v.e = 255 /\ v.m = 0
IsZero(v) == v.e = 0 /\ v.m = 0

\* position of a non-NaN float in the numeric order (-0.0 and 0.0 coincide)
Key(v) == IF v.s = 1 THEN 0 - (v.e * 8388608 + v.m) ELSE v.e * 8388608 + v.m

\* a < b on floats: false when either is NaN
Lt(a, b) == ~IsNaN(a) /\ ~IsNaN(b) /\ Key(a) < Key(b)

\* Python truth value of `value`: None and +-0.0 are false, NaN is true
Truthy(v) == v # None /\ ~IsZero(v)

\* v * 2^frac as an integer, for a normal v with v.e + frac >= 150
Scaled(v, frac) == (8388608 + v.m) * Pow2(v.e - 150 + frac)

\* range(0, stop, 4) as a sequence
Range4(stop) ==
    [i \in 1..(IF stop <= 0 THEN 0 ELSE (stop + 3) \div 4) |-> 4 * (i - 1)]

\* seq[:n]
Take(seq, n) == SubSeq(seq, 1, IF n < Len(seq) THEN n ELSE Len(seq))

\* list.sort(key=..., reverse=True), keys[i] being the key of seq[i]:
\* descending by key, equal keys keep their order
SortDescBy(seq, keys) ==
    LET n == Len(seq)
        pos(i) == Cardinality({j \in 1..n : keys[j] > keys[i]})
                  + Cardinality({j \in 1..(i - 1) : keys[j] = keys[i]}) + 1
    IN [p \in 1..n |-> seq[CHOOSE i \in 1..n : pos(i) = p]]

\* the same sort with the order of equal keys reversed
SortDescTiesReversed(seq, keys) ==
    LET n == Len(seq)
        pos(i) == Cardinality({j \in 1..n : keys[j] > keys[i]})
                  + Cardinality({j \in (i + 1)..n : keys[j] = keys[i]}) + 1
    IN [p \in 1..n |-> seq[CHOOSE i \in 1..n : pos(i) = p]]

(***************************************************************************)
(* Field decoder.                                                          *)
(***************************************************************************)
\* read_f32 with the bounds test off by one
read_f32_ge(d, offset) ==
    IF offset + 4 >= Len(d) THEN [s |-> 0, e |-> 0 - 1, m |-> 0]
    ELSE unpack_f(SubSeq(d, offset + 1, offset + 4))

read_f32(d, offset) ==
    IF offset + 4 > Len(d) THEN None
    ELSE unpack_f(SubSeq(d, offset + 1, offset + 4))

(***************************************************************************)
(* Single-offset range scans.                                              *)
(***************************************************************************)
\* the scan with the bounds of the range included
RangeScanInclusive(d, lo, hi) ==
    LET cand(i) == [off |-> i, value |-> read_f32(d, i)]
        all == [k \in 1..Len(Range4(Len(d) - 4)) |-> cand(Range4(Len(d) - 4)[k])]
        hit(c) == Truthy(c.value) /\ ~Lt(c.value, lo) /\ ~Lt(hi, c.value)
    IN SelectSeq(all, hit)

\* for i in range(0, len(data) - 4, 4): value = read_f32(data, i);
\*     if value and lo < value < hi: <collect (i, value)>
RangeScan(d, lo, hi) ==
    LET cand(i) == [off |-> i, value |-> read_f32(d, i)]
        all == [k \in 1..Len(Range4(Len(d) - 4)) |-> cand(Range4(Len(d) - 4)[k])]
        hit(c) == Truthy(c.value) /\ Lt(lo, c.value) /\ Lt(c.value, hi)
    IN SelectSeq(all, hit)

CandValue(c) == Key(c.value)

\* display caps of the two temperature scans
TctlShown == 20
SocShown == 30

\* search_tctl sorting ascending and reversing the list
search_tctl_reversed(d) ==
    LET found == RangeScan(d, Lit(40, 0), Lit(95, 0))
        candidates ==
            SortDescTiesReversed(found, [i \in 1..Len(found) |-> CandValue(found[i])])
    IN [ret |-> candidates, printed |-> Take(candidates, TctlShown)]

search_tctl(d) ==
    LET found == RangeScan(d, Lit(40, 0), Lit(95, 0))
        candidates == SortDescBy(found, [i \in 1..Len(found) |-> CandValue(found[i])])
    IN [ret |-> candidates, printed |-> Take(candidates, TctlShown)]

search_soc_temp(d) ==
    LET candidates == RangeScan(d, Lit(30, 0), Lit(70, 0))
    IN [ret |-> candidates, printed |-> Take(candidates, SocShown)]

search_temps(d) ==
    [ret |-> <<>>, printed |-> RangeScan(d, Lit(30, 0), Lit(95, 0))]

search_power(d) ==
    [ret |-> <<>>, printed |-> RangeScan(d, Lit(5, 0), Lit(200, 0))]

search_freq(d) ==
    [ret |-> <<>>, printed |-> RangeScan(d, Lit(1000, 0), Lit(7000, 0))]

search_voltage(d) ==
    [ret |-> <<>>, printed |-> RangeScan(d, Lit(1, 1), Lit(2, 0))]

(***************************************************************************)
(* Buffers.                                                                *)
(***************************************************************************)
RECURSIVE Flatten(_)
Flatten(ws) == IF ws = <<>> THEN <<>> ELSE Head(ws) \o Flatten(Tail(ws))

\* every buffer of at most MaxLen bytes made of whole fields drawn from W
\* followed by 0..3 bytes of an incomplete field
Buffers(W) ==
    UNION { { Flatten(f) \o SubSeq(<<0, 0, 72>>, 1, t) : f \in [1..k -> W] } :
            <<k, t>> \in { x \in (0..(MaxLen \div 4)) \X (0..3) :
                           4 * x[1] + x[2] <= MaxLen } }

\* 50.0, 96.0, 10.0, 45.0, 95.0, 0.0, NaN, +Infinity, 1.0, 3000.0
ScanWords ==
    { <<0, 0, 72, 66>>, <<0, 0, 192, 66>>, <<0, 0, 32, 65>>, <<0, 0, 52, 66>>,
      <<0, 0, 190, 66>>, <<0, 0, 0, 0>>, <<0, 0, 192, 127>>, <<0, 0, 128, 127>>,
      <<0, 0, 128, 63>>, <<0, 128, 59, 69>> }

\* the aligned offsets a decoder call is tried at
AlignedOffsets == { o \in 0..(MaxLen + 4) : o % 4 = 0 }

(***************************************************************************)
(* One-shot operations on a buffer.                                        *)
(***************************************************************************)
MonIdle ==
    /\ mstate = "Idle" /\ mpc = "idle" /\ offsets = <<>> /\ snap = <<>>
    /\ line = <<>> /\ emitted = 0 /\ acquired = 0 /\ sigint = FALSE

ScanIdle ==
    /\ op = "init" /\ arg = 0 /\ ret = <<>> /\ printed = <<>> /\ fault = "none"

Init ==
    /\ data \in Buffers(ScanWords)
    /\ ScanIdle
    /\ MonIdle

\* a call of a function that returns r.ret after printing r.printed
Call(name, r) ==
    /\ op = "init"
    /\ op' = name
    /\ arg' = 0
    /\ ret' = r.ret
    /\ printed' = r.printed
    /\ fault' = "none"
    /\ UNCHANGED <<data, monVars>>

ReadF32 ==
    \E o \in AlignedOffsets :
        /\ op = "init"
        /\ op' = "read_f32"
        /\ arg' = o
        /\ ret' = <<read_f32(data, o)>>
        /\ UNCHANGED <<data, printed, fault, monVars>>

SearchTctl == Call("search_tctl", search_tctl(data))
SearchSocTemp == Call("search_soc_temp", search_soc_temp(data))
SearchTemps == Call("search_temps", search_temps(data))
SearchPower == Call("search_power", search_power(data))
SearchFreq == Call("search_freq", search_freq(data))
SearchVoltage == Call("search_voltage", search_voltage(data))

Next ==
    \/ ReadF32
    \/ SearchTctl
    \/ SearchSocTemp
    \/ SearchTemps
    \/ SearchPower
    \/ SearchFreq
    \/ SearchVoltage

Spec == Init /\ [][Next]_vars

(***************************************************************************)
(* Per-core array scans.                                                   *)
(***************************************************************************)
\* for base in range(0, len(data) - n * 4, 4):
\*     values = [read_f32(data, base + i * 4) for i in range(n)]
Windows(d, n) ==
    LET bases == Range4(Len(d) - n * 4)
    IN [k \in 1..Len(bases) |->
           [base |-> bases[k],
            values |-> [i \in 1..n |-> read_f32(d, bases[k] + (i - 1) * 4)]]]

RECURSIVE SumScaled(_, _)
\* sum(values), in units of 2^-frac
SumScaled(values, frac) ==
    IF values = <<>> THEN 0
    ELSE Scaled(Head(values), frac) + SumScaled(Tail(values), frac)

\* max(values) - min(values), in units of 2^-frac
SpreadScaled(values, frac) ==
    LET xs == { Scaled(values[i], frac) : i \in 1..Len(values) }
    IN (CHOOSE x \in xs : \A y \in xs : y <= x)
       - (CHOOSE x \in xs : \A y \in xs : x <= y)

\* lo < sum / n < hi for integer literals lo and hi, sum in units of 2^-frac.
\* The quotient is rounded to a double, but a sum of n < 2^7 floats that are
\* multiples of 2^-24 below 2^8 is exact in a double and, when different
\* from n * lo, is more than half an ulp away from it after the division, so
\* the rounded test and the exact test agree.
MeanInside(sum, n, lo, hi, frac) ==
    lo * n * Pow2(frac) < sum /\ sum < hi * n * Pow2(frac)

\* all(v is not None and 25 < v < 100 for v in values)
core_temps_all(values) ==
    \A i \in 1..Len(values) :
        /\ values[i] # None
        /\ Lt(Lit(25, 0), values[i])
        /\ Lt(values[i], Lit(100, 0))

\* the acceptance test with the spread left out
core_temps_accept_no_spread(values) ==
    MeanInside(SumScaled(values, 19), Len(values), 35, 85, 19)

\* 35 < avg < 85 and spread < 30, for values that passed core_temps_all
core_temps_accept(values) ==
    /\ MeanInside(SumScaled(values, 19), Len(values), 35, 85, 19)
    /\ SpreadScaled(values, 19) < 30 * Pow2(19)

\* avg as the exact quotient num / (den * 2^frac)
Avg(values, frac) == [num |-> SumScaled(values, frac), den |-> Len(values)]

\* key=lambda x: x[2]: candidates of one scan share den, so avg orders as num
CandAvg(c) == c.avg.num

\* the candidates left in scan order
core_temps_unranked(candidates) == candidates

\* candidates.sort(key=lambda x: x[2], reverse=True)
core_temps_rank(candidates) ==
    SortDescBy(candidates, [i \in 1..Len(candidates) |-> CandAvg(candidates[i])])

\* display cap of the per-core temperature scan
CoreShown == 5

\* sum(values) / len(values) raises ZeroDivisionError on an empty window
DivisionRaises(values) == Len(values) = 0

search_core_temps(d, num_cores) ==
    LET ws == Windows(d, num_cores)
        good(w) == core_temps_all(w.values) /\ core_temps_accept(w.values)
        kept == SelectSeq(ws, good)
        candidates ==
            core_temps_rank(
                [k \in 1..Len(kept) |->
                    [base |-> kept[k].base,
                     values |-> kept[k].values,
                     avg |-> Avg(kept[k].values, 19),
                     spread |-> SpreadScaled(kept[k].values, 19)]])
    IN IF \E k \in 1..Len(ws) : core_temps_all(ws[k].values) /\ DivisionRaises(ws[k].values)
       THEN [ret |-> <<>>, printed |-> <<>>, fault |-> "ZeroDivisionError"]
       ELSE [ret |-> candidates, printed |-> Take(candidates, CoreShown),
             fault |-> "none"]

\* all(v and 25 < v < 95 for v in values)
arrays_temp_all(values) ==
    \A i \in 1..Len(values) :
        /\ Truthy(values[i])
        /\ Lt(Lit(25, 0), values[i])
        /\ Lt(values[i], Lit(95, 0))

\* all(v and 0.5 < v < 20 for v in values)
arrays_power_all(values) ==
    \A i \in 1..Len(values) :
        /\ Truthy(values[i])
        /\ Lt(Lit(1, 1), values[i])
        /\ Lt(values[i], Lit(20, 0))

\* sum(1 for v in values if v and 400 < v < 6000)
arrays_freq_valid(values) ==
    Cardinality({ i \in 1..Len(values) :
                    /\ Truthy(values[i])
                    /\ Lt(Lit(400, 0), values[i])
                    /\ Lt(values[i], Lit(6000, 0)) })

\* valid >= core_count - 2
arrays_freq_accept(values, core_count) ==
    arrays_freq_valid(values) >= core_count - 2

\* the three loops of search_core_arrays, which print as they go: a fault in
\* a loop ends the function with the lines printed so far
search_core_arrays(d, core_count) ==
    LET ws == Windows(d, core_count)
        tempGood(w) ==
            /\ arrays_temp_all(w.values)
            /\ MeanInside(SumScaled(w.values, 19), Len(w.values), 30, 70, 19)
        powerGood(w) ==
            /\ arrays_power_all(w.values)
            /\ MeanInside(SumScaled(w.values, 24), Len(w.values), 2, 15, 24)
        freqGood(w) == arrays_freq_accept(w.values, core_count)
        tempKept == SelectSeq(ws, tempGood)
        powerKept == SelectSeq(ws, powerGood)
        freqKept == SelectSeq(ws, freqGood)
        temps == [k \in 1..Len(tempKept) |->
                    [sec |-> "temp", base |-> tempKept[k].base,
                     values |-> tempKept[k].values,
                     avg |-> Avg(tempKept[k].values, 19)]]
        powers == [k \in 1..Len(powerKept) |->
                     [sec |-> "power", base |-> powerKept[k].base,
                      values |-> powerKept[k].values,
                      avg |-> Avg(powerKept[k].values, 24)]]
        freqs == [k \in 1..Len(freqKept) |->
                    [sec |-> "freq", base |-> freqKept[k].base,
                     values |-> freqKept[k].values,
                     avg |-> [num |-> 0, den |-> 0]]]
    IN IF \E k \in 1..Len(ws) : arrays_temp_all(ws[k].values) /\ DivisionRaises(ws[k].values)
       THEN [ret |-> <<>>, printed |-> <<>>, fault |-> "ZeroDivisionError"]
       ELSE IF \E k \in 1..Len(ws) : arrays_power_all(ws[k].values) /\ DivisionRaises(ws[k].values)
       THEN [ret |-> <<>>, printed |-> temps, fault |-> "ZeroDivisionError"]
       ELSE [ret |-> <<>>, printed |-> temps \o powers \o freqs, fault |-> "none"]

\* 26.0, 50.0, 60.0, 90.0, 1.0, 5.0, 18.0, 3000.0, 0.0, NaN
ArrayWords ==
    { <<0, 0, 208, 65>>, <<0, 0, 72, 66>>, <<0, 0, 112, 66>>, <<0, 0, 180, 66>>,
      <<0, 0, 128, 63>>, <<0, 0, 160, 64>>, <<0, 0, 144, 65>>, <<0, 128, 59, 69>>,
      <<0, 0, 0, 0>>, <<0, 0, 192, 127>> }

InitArrays ==
    /\ data \in Buffers(ArrayWords)
    /\ ScanIdle
    /\ MonIdle

\* a call of an array scan with unit count n
CallArray(name, n, r) ==
    /\ op = "init"
    /\ op' = name
    /\ arg' = n
    /\ ret' = r.ret
    /\ printed' = r.printed
    /\ fault' = r.fault
    /\ UNCHANGED <<data, monVars>>

SearchCoreTemps ==
    \E n \in 0..MaxCores : CallArray("search_core_temps", n, search_core_temps(data, n))

SearchCoreArrays ==
    \E n \in 0..MaxCores : CallArray("search_core_arrays", n, search_core_arrays(data, n))

NextArrays ==
    \/ SearchCoreTemps
    \/ SearchCoreArrays

SpecArrays == InitArrays /\ [][NextArrays]_vars

(***************************************************************************)
(* Live monitor: watch_temps(read_pm_table, offsets).                      *)
(*   mstate  Idle, Polling (inside the while loop), Stopped (the           *)
(*           KeyboardInterrupt handler ran), Exited (the process ended on  *)
(*           an exception watch_temps does not catch)                      *)
(*   mpc     the statement about to run                                    *)
(*   snap    the snapshot of the current tick                              *)
(*   line    the offset:value pairs of the last line printed               *)
(***************************************************************************)
\* longest snapshot the source hands to the monitor, in bytes
MaxSnap == 9

\* 70.0, 40.0, 0.0, NaN
MonWords ==
    { <<0, 0, 140, 66>>, <<0, 0, 32, 66>>, <<0, 0, 0, 0>>, <<0, 0, 192, 127>> }

Snapshots == { b \in Buffers(MonWords) : Len(b) <= MaxSnap }

\* the offset lists given on the command line
OffsetLists == { <<0, 4>>, <<4, 0>>, <<0, 8>>, <<4>> }

\* (o, v) for o, v in zip(offsets, values) if v
\*   with values = [read_f32(data, o) for o in offsets]
watch_line(d, offs) ==
    LET pairs == [i \in 1..Len(offs) |-> [off |-> offs[i], value |-> read_f32(d, offs[i])]]
        shown(pr) == Truthy(pr.value)
    IN SelectSeq(pairs, shown)

InitMonitor ==
    /\ data = <<>>
    /\ ScanIdle
    /\ MonIdle

\* main() parses the offsets and calls watch_temps
WatchStart ==
    /\ mstate = "Idle" /\ mpc = "idle"
    /\ \E offs \in OffsetLists : offsets' = offs
    /\ mpc' = "header"
    /\ UNCHANGED <<scanVars, mstate, snap, line, emitted, acquired, sigint>>

\* the header is printed and the try block and its loop are entered
EnterLoop ==
    /\ mpc = "header"
    /\ mstate' = "Polling"
    /\ mpc' = "acquire"
    /\ UNCHANGED <<scanVars, offsets, snap, line, emitted, acquired, sigint>>

\* data = data_getter(): read_pm_table returns the table
Acquire ==
    /\ mstate = "Polling" /\ mpc = "acquire"
    /\ acquired < MaxTicks
    /\ \E b \in Snapshots : snap' = b
    /\ acquired' = acquired + 1
    /\ mpc' = "emit"
    /\ UNCHANGED <<scanVars, mstate, offsets, line, emitted, sigint>>

\* a monitor that passes over a tick whose acquisition failed
AcquireFailsSkipped ==
    /\ mstate = "Polling" /\ mpc = "acquire"
    /\ fault' = "SystemExit"
    /\ mpc' = "sleep"
    /\ UNCHANGED <<data, op, arg, ret, printed, mstate,
                   offsets, snap, line, emitted, acquired, sigint>>

\* data = data_getter(): read_pm_table cannot open the table, prints the
\* error and calls sys.exit(1); watch_temps catches KeyboardInterrupt only
AcquireFails ==
    /\ mstate = "Polling" /\ mpc = "acquire"
    /\ fault' = "SystemExit"
    /\ mstate' = "Exited"
    /\ mpc' = "done"
    /\ UNCHANGED <<data, op, arg, ret, printed,
                   offsets, snap, line, emitted, acquired, sigint>>

\* the values are decoded and the line is printed
Emit ==
    /\ mstate = "Polling" /\ mpc = "emit"
    /\ line' = watch_line(snap, offsets)
    /\ emitted' = emitted + 1
    /\ mpc' = "sleep"
    /\ UNCHANGED <<scanVars, mstate, offsets, snap, acquired, sigint>>

\* time.sleep(interval) returns and the loop goes round
Sleep ==
    /\ mstate = "Polling" /\ mpc = "sleep"
    /\ mpc' = "acquire"
    /\ UNCHANGED <<scanVars, mstate, offsets, snap, line, emitted, acquired, sigint>>

\* Ctrl+C caught inside the loop body, so the loop goes on polling
InterruptIgnored ==
    /\ mstate = "Polling"
    /\ ~sigint
    /\ sigint' = TRUE
    /\ UNCHANGED <<scanVars, mstate, mpc, offsets, snap, line, emitted, acquired>>

\* Ctrl+C inside the try block: the handler prints "Monitoring stopped."
Interrupt ==
    /\ mstate = "Polling"
    /\ sigint' = TRUE
    /\ mstate' = "Stopped"
    /\ mpc' = "done"
    /\ UNCHANGED <<scanVars, offsets, snap, line, emitted, acquired>>

\* Ctrl+C while the header is printed, before the try block
InterruptHeader ==
    /\ mpc = "header"
    /\ sigint' = TRUE
    /\ fault' = "KeyboardInterrupt"
    /\ mstate' = "Exited"
    /\ mpc' = "done"
    /\ UNCHANGED <<data, op, arg, ret, printed,
                   offsets, snap, line, emitted, acquired>>

NextMonitor ==
    \/ WatchStart
    \/ EnterLoop
    \/ Acquire
    \/ AcquireFails
    \/ Emit
    \/ Sleep
    \/ Interrupt
    \/ InterruptHeader

SpecMonitor == InitMonitor /\ [][NextMonitor]_vars

(***************************************************************************)
(* Properties of the single-offset scans and of the decoder.               *)
(***************************************************************************)
SingleScans ==
    {"search_tctl", "search_soc_temp", "search_temps", "search_power",
     "search_freq", "search_voltage"}

\* the range each scan tests against
ScanLower(name) ==
    CASE name = "search_tctl" -> Lit(40, 0)
      [] name = "search_soc_temp" -> Lit(30, 0)
      [] name = "search_temps" -> Lit(30, 0)
      [] name = "search_power" -> Lit(5, 0)
      [] name = "search_freq" -> Lit(1000, 0)
      [] name = "search_voltage" -> Lit(1, 1)

ScanUpper(name) ==
    CASE name = "search_tctl" -> Lit(95, 0)
      [] name = "search_soc_temp" -> Lit(70, 0)
      [] name = "search_temps" -> Lit(95, 0)
      [] name = "search_power" -> Lit(200, 0)
      [] name = "search_freq" -> Lit(7000, 0)
      [] name = "search_voltage" -> Lit(2, 0)

\* what a scan found: its return value, or its printed lines when it returns nothing
Found == IF op \in {"search_tctl", "search_soc_temp"} THEN ret ELSE printed

\* the field at aligned offset o, decoded from the four bytes themselves
FieldAt(d, o) == unpack_f(<<d[o + 1], d[o + 2], d[o + 3], d[o + 4]>>)

StrictlyInside(v, lo, hi) ==
    /\ v.e # 255
    /\ Key(lo) < Key(v)
    /\ Key(v) < Key(hi)

\* the aligned offsets 0 <= o <= length-4 whose field lies strictly inside (lo, hi)
MatchingOffsets(d, lo, hi) ==
    { o \in 0..(Len(d) - 4) : o % 4 = 0 /\ StrictlyInside(FieldAt(d, o), lo, hi) }

IsAscending(seq) == \A i \in 1..(Len(seq) - 1) : seq[i].off < seq[i + 1].off

\* C1: a single-offset range scan finds exactly the aligned offsets o with
\* 0 <= o <= length-4 whose decoded value lies strictly inside the range, the
\* last aligned field of the buffer included; unranked scans list them in
\* ascending offset order.
C1_ScanCoversEveryField ==
    op \in SingleScans =>
        /\ { Found[i].off : i \in 1..Len(Found) }
             = MatchingOffsets(data, ScanLower(op), ScanUpper(op))
        /\ Len(Found) = Cardinality(MatchingOffsets(data, ScanLower(op), ScanUpper(op)))
        /\ (op # "search_tctl" => IsAscending(Found))

\* C7: search_tctl returns its matches highest value first, equal values in
\* ascending offset order, and returns every match (a permutation of the
\* unranked matches, none dropped by the display cap).
C7_TctlRanking ==
    op = "search_tctl" =>
        LET unranked == RangeScan(data, Lit(40, 0), Lit(95, 0))
        IN /\ \A i \in 1..(Len(ret) - 1) :
                  \/ Key(ret[i].value) > Key(ret[i + 1].value)
                  \/ /\ Key(ret[i].value) = Key(ret[i + 1].value)
                     /\ ret[i].off < ret[i + 1].off
           /\ Len(ret) = Len(unranked)
           /\ { ret[i] : i \in 1..Len(ret) } = { unranked[i] : i \in 1..Len(unranked) }
           /\ \A i, j \in 1..Len(ret) : i # j => ret[i].off # ret[j].off

\* a ranking that moved a later, hotter field ahead and kept a tie in offset order
C7_Witness ==
    /\ op = "search_tctl"
    /\ Len(ret) >= 3
    /\ \E i \in 1..(Len(ret) - 1) :
           Key(ret[i].value) = Key(ret[i + 1].value) /\ ret[i].off < ret[i + 1].off
    /\ \E i \in 1..(Len(ret) - 1) :
           Key(ret[i].value) > Key(ret[i + 1].value) /\ ret[i].off > ret[i + 1].off

\* C9: every (offset, value) a single-offset scan returns or prints is the
\* field at that offset and lies strictly inside the scan's range: it is
\* never equal to a bound, outside the range, NaN or infinite.
C9_StrictlyInsideRange ==
    op \in SingleScans =>
        \A i \in 1..Len(Found) :
            /\ Found[i].off % 4 = 0
            /\ Found[i].off + 4 <= Len(data)
            /\ Found[i].value = FieldAt(data, Found[i].off)
            /\ ~IsNaN(Found[i].value)
            /\ ~IsInf(Found[i].value)
            /\ StrictlyInside(Found[i].value, ScanLower(op), ScanUpper(op))

\* a temperature scan that matched a field and passed over a scanned field
\* holding exactly 95.0 and a scanned field holding a NaN or an infinity
C9_Witness ==
    /\ op = "search_temps"
    /\ Len(printed) >= 1
    /\ \E o \in 0..(Len(data) - 5) : o % 4 = 0 /\ FieldAt(data, o) = Lit(95, 0)
    /\ \E o \in 0..(Len(data) - 5) : o % 4 = 0 /\ FieldAt(data, o).e = 255

\* C10: read_f32 at a non-negative aligned offset returns None exactly when
\* offset + 4 > len(data), otherwise the float held by the four bytes
\* data[offset .. offset+3]; it raises no fault and leaves the buffer as it was.
C10_DecoderContract ==
    [][ (op = "init" /\ op' = "read_f32") =>
            /\ data' = data
            /\ fault' = "none"
            /\ (ret'[1] = None) <=> (arg' + 4 > Len(data))
            /\ (arg' + 4 <= Len(data)) => ret'[1] = FieldAt(data, arg') ]_vars

\* the decoder called on the last whole field of a buffer of several fields
C10_Witness ==
    /\ op = "read_f32"
    /\ arg + 4 = Len(data)
    /\ arg >= 4
    /\ ret[1] # None
    /\ ~IsZero(ret[1])

(***************************************************************************)
(* Properties of the array scans.                                          *)
(***************************************************************************)
ArrayScans == {"search_core_temps", "search_core_arrays"}

\* the n fields of the window at base, decoded from the bytes themselves
WindowAt(d, base, n) == [i \in 1..n |-> FieldAt(d, base + 4 * (i - 1))]

\* the lines search_core_arrays printed in one of its sections
Section(name) == LET in(c) == c.sec = name IN SelectSeq(printed, in)

AllStrictlyInside(values, lo, hi) ==
    \A i \in 1..Len(values) : StrictlyInside(values[i], lo, hi)

\* a reported window: whole, inside the buffer, with unitCount values, all
\* strictly inside (lo, hi) and a mean strictly inside (meanLo, meanHi)
ReportedWindowOk(c, lo, hi, meanLo, meanHi, frac) ==
    /\ c.base % 4 = 0
    /\ c.base + 4 * arg <= Len(data)
    /\ Len(c.values) = arg
    /\ c.values = WindowAt(data, c.base, arg)
    /\ AllStrictlyInside(c.values, lo, hi)
    /\ meanLo * arg * Pow2(frac) < SumScaled(WindowAt(data, c.base, arg), frac)
    /\ SumScaled(WindowAt(data, c.base, arg), frac) < meanHi * arg * Pow2(frac)

\* max - min of the window does not exceed the maximum spread of the source
SpreadWithin(c, frac) ==
    \A i, j \in 1..Len(c.values) :
        Scaled(c.values[i], frac) - Scaled(c.values[j], frac) <= 30 * Pow2(frac)

\* C2: with a unit count n >= 1, the frequency section of search_core_arrays
\* reports the window at aligned base b, 0 <= b <= length - n*4, if and only
\* if at least n-2 of its n values lie strictly inside (400, 6000).
C2_TolerantWindowIff ==
    (op = "search_core_arrays" /\ fault = "none" /\ arg >= 1) =>
        { Section("freq")[i].base : i \in 1..Len(Section("freq")) }
        = { b \in 0..(Len(data) - 4 * arg) :
              /\ b % 4 = 0
              /\ Cardinality({ i \in 1..arg :
                     StrictlyInside(WindowAt(data, b, arg)[i],
                                    Lit(400, 0), Lit(6000, 0)) }) >= arg - 2 }

\* C3: every window a strict-mode scan reports (search_core_temps, and the
\* temperature and power sections of search_core_arrays) has unitCount
\* values, all strictly inside the per-unit range, a mean strictly inside
\* the mean range and a spread that does not exceed the maximum spread.
C3_StrictWindowsBounded ==
    /\ op = "search_core_temps" =>
           \A i \in 1..Len(ret) :
               /\ ReportedWindowOk(ret[i], Lit(25, 0), Lit(100, 0), 35, 85, 19)
               /\ SpreadWithin(ret[i], 19)
    /\ op = "search_core_arrays" =>
           /\ \A i \in 1..Len(Section("temp")) :
                  /\ ReportedWindowOk(Section("temp")[i], Lit(25, 0), Lit(95, 0), 30, 70, 19)
                  /\ SpreadWithin(Section("temp")[i], 19)
           /\ \A i \in 1..Len(Section("power")) :
                  /\ ReportedWindowOk(Section("power")[i], Lit(1, 1), Lit(20, 0), 2, 15, 24)
                  /\ SpreadWithin(Section("power")[i], 24)

\* C3 as amended: search_core_temps reports only windows meeting all three
\* conditions; the temperature and power sections of search_core_arrays
\* report only windows whose values lie strictly inside the per-unit range
\* and whose mean lies strictly inside the mean range, with no spread limit.
C3_StrictWindowsAmended ==
    /\ op = "search_core_temps" =>
           \A i \in 1..Len(ret) :
               /\ ReportedWindowOk(ret[i], Lit(25, 0), Lit(100, 0), 35, 85, 19)
               /\ SpreadWithin(ret[i], 19)
    /\ op = "search_core_arrays" =>
           /\ \A i \in 1..Len(Section("temp")) :
                  ReportedWindowOk(Section("temp")[i], Lit(25, 0), Lit(95, 0), 30, 70, 19)
           /\ \A i \in 1..Len(Section("power")) :
                  ReportedWindowOk(Section("power")[i], Lit(1, 1), Lit(20, 0), 2, 15, 24)

\* search_core_temps reported a window and passed over another one whose
\* values and mean are in range but whose spread is too large
C3_Witness ==
    /\ op = "search_core_temps"
    /\ arg >= 2
    /\ Len(ret) >= 1
    /\ \E b \in 0..(Len(data) - 4 * arg - 1) :
           /\ b % 4 = 0
           /\ AllStrictlyInside(WindowAt(data, b, arg), Lit(25, 0), Lit(100, 0))
           /\ MeanInside(SumScaled(WindowAt(data, b, arg), 19), arg, 35, 85, 19)
           /\ \A i \in 1..Len(ret) : ret[i].base # b

\* C6: an array scan of any buffer with any unit count >= 0 ends with a
\* candidate sequence and raises no fault.
C6_ArrayScansTotal ==
    op \in ArrayScans => fault = "none"

MeanDescending(seq, frac) ==
    \A i \in 1..(Len(seq) - 1) :
        SumScaled(WindowAt(data, seq[i].base, arg), frac)
            >= SumScaled(WindowAt(data, seq[i + 1].base, arg), frac)

BaseAscending(seq) ==
    \A i \in 1..(Len(seq) - 1) : seq[i].base < seq[i + 1].base

\* C8: strict-mode array candidates, of the temperature arrays and of the
\* power arrays alike, are presented by window mean, highest first.
C8_StrictArraysByMean ==
    /\ op = "search_core_temps" => MeanDescending(ret, 19)
    /\ op = "search_core_arrays" =>
           /\ MeanDescending(Section("temp"), 19)
           /\ MeanDescending(Section("power"), 24)

\* C8 as amended: search_core_temps returns and prints its candidates by
\* window mean, highest first; search_core_arrays prints the candidates of
\* its temperature and power sections in ascending base-offset order.
C8_RankingAmended ==
    /\ op = "search_core_temps" =>
           /\ MeanDescending(ret, 19)
           /\ printed = Take(ret, CoreShown)
    /\ op = "search_core_arrays" =>
           /\ BaseAscending(Section("temp"))
           /\ BaseAscending(Section("power"))

\* search_core_temps moved a window with a higher mean ahead of an earlier one
C8_Witness ==
    /\ op = "search_core_temps"
    /\ Len(ret) >= 2
    /\ \E i \in 1..(Len(ret) - 1) :
           /\ ret[i].base > ret[i + 1].base
           /\ ret[i].avg.num > ret[i + 1].avg.num

(***************************************************************************)
(* Properties of the live monitor.                                         *)
(***************************************************************************)
\* C4: while the monitor is Polling, a failed acquisition skips the tick and
\* the monitor stays Polling; it leaves Polling only for Stopped, on the
\* cancellation signal.
C4_FailureSkipsTick ==
    [][ mstate = "Polling" =>
            \/ mstate' = "Polling"
            \/ mstate' = "Stopped" /\ sigint' ]_vars

\* C4 as amended: a failed acquisition emits nothing for its tick and ends
\* the monitor, the process exiting on read_pm_table's SystemExit without a
\* further tick; the monitor leaves Polling only so or on the cancellation
\* signal, and it reaches Stopped only on the cancellation signal.
C4_FailureEndsMonitor ==
    [][ /\ (fault = "none" /\ fault' = "SystemExit") =>
              /\ mstate = "Polling" /\ mpc = "acquire"
              /\ mstate' = "Exited"
              /\ line' = line /\ emitted' = emitted /\ acquired' = acquired
              /\ mpc' = "done"
        /\ (mstate = "Polling" /\ mstate' # "Polling") =>
              \/ mstate' = "Stopped" /\ sigint'
              \/ mstate' = "Exited" /\ fault' = "SystemExit"
        /\ (mstate # "Stopped" /\ mstate' = "Stopped") => (~sigint /\ sigint') ]_vars

\* the source failed on a later tick, after a line had been printed
C4_Witness ==
    /\ mstate = "Exited"
    /\ fault = "SystemExit"
    /\ acquired >= 1
    /\ emitted >= 1
    /\ Len(line) >= 1
    /\ ~sigint

\* C5: the line of a tick holds one offset:value pair, in configured order,
\* for every configured offset whose four bytes lie inside the tick's
\* snapshot, whatever the value (0.0 included), and no other pair.
C5_LineHasEveryInRangeOffset ==
    (mstate = "Polling" /\ mpc = "sleep" /\ fault = "none") =>
        LET inside(o) == o + 4 <= Len(snap)
            want == SelectSeq(offsets, inside)
        IN /\ Len(line) = Len(want)
           /\ \A i \in 1..Len(want) :
                  /\ line[i].off = want[i]
                  /\ line[i].value = FieldAt(snap, want[i])

\* C11: a cancellation signal delivered at any point of a tick (during
\* acquisition, emission or the suspension between two ticks) moves the
\* monitor to Stopped, after which no line is emitted and no snapshot is
\* acquired; until then each tick acquires a fresh snapshot, decodes and
\* emits the line of that snapshot, then suspends, in that order.
C11_CancellationStopsTicks ==
    [][ /\ (mstate = "Polling" /\ ~sigint /\ sigint') =>
              /\ mstate' = "Stopped"
              /\ emitted' = emitted /\ acquired' = acquired
              /\ line' = line /\ snap' = snap
        /\ (sigint \/ mstate = "Stopped") =>
              /\ emitted' = emitted /\ acquired' = acquired
              /\ line' = line /\ snap' = snap
              /\ mstate' = mstate
        /\ (mstate = "Polling" /\ mstate' = "Polling") =>
              /\ mpc = "acquire" =>
                     /\ mpc' = "emit"
                     /\ acquired' = acquired + 1 /\ emitted' = emitted
                     /\ line' = line
              /\ mpc = "emit" =>
                     /\ mpc' = "sleep"
                     /\ emitted' = emitted + 1 /\ acquired' = acquired
                     /\ snap' = snap
                     /\ \A i \in 1..Len(line') :
                            /\ line'[i].off + 4 <= Len(snap)
                            /\ line'[i].value = FieldAt(snap, line'[i].off)
              /\ mpc = "sleep" =>
                     /\ mpc' = "acquire"
                     /\ emitted' = emitted /\ acquired' = acquired
                     /\ line' = line /\ snap' = snap
              /\ mpc \in {"acquire", "emit", "sleep"}
              /\ emitted' <= acquired' /\ acquired' <= emitted' + 1 ]_vars

\* the monitor cancelled between its first and its second tick, one line out
C11_Witness ==
    /\ mstate = "Stopped"
    /\ sigint
    /\ fault = "none"
    /\ acquired = 1
    /\ emitted = 1
    /\ Len(line) = 2

====
